---- MODULE Spec2Model ----
(***************************************************************************)
(* Model of graph.py: parse_graph reads a line-oriented description of a   *)
(* directed graph into a vertex set and an edge list, draw_graph hands the *)
(* result to a networkx DiGraph and displays it.                           *)
(*                                                                         *)
(* A line is a sequence of one-character strings, a token is a sequence of *)
(* characters, and the file is a sequence of lines, each ending in "\n" as *)
(* Python's file iteration yields them.                                    *)
(***************************************************************************)
EXTENDS Integers, Sequences, FiniteSets, TLC

\* pc        where the program is: "start", "open", "loop" (in parse_graph),
\*           "draw", "render", "show" (in draw_graph), "done", "error"
\* exists    whether there is a file at file_path
\* file      the lines of the input file
\* fstate    the file object: "unopened", "open" or "closed"
\* i         the number of lines the loop has processed
\* vertices  parse_graph's vertices, a set
\* edges     parse_graph's edges, a list of pairs
\* err       the uncaught exception that ended the process, or "none"
\* result    <<>> until parse_graph returns, then the one pair it returned
\* G_node    the nodes of draw_graph's G
\* G_succ    the successors of each node of G
VARIABLES pc, exists, file, fstate, i, vertices, edges, err, result, G_node, G_succ

vars == <<pc, exists, file, fstate, i, vertices, edges, err, result, G_node, G_succ>>

\* Longest input file, in lines.
MaxLines == 3

-----------------------------------------------------------------------------
\* Input alphabet and the input lines the files are made of.

SP == <<" ">>
TAB == <<"\t">>
NL == <<"\n">>

KwVertex == <<"v", "e", "r", "t", "e", "x">>
KwEdge == <<"e", "d", "g", "e">>

IdA == <<"A">>
IdB == <<"B">>
IdC == <<"C">>

Lines ==
  { NL,                                                         \* ""
    SP \o TAB \o NL,                                            \* " \t"
    KwVertex \o SP \o IdA \o NL,                                \* "vertex A"
    KwVertex \o SP \o IdB \o NL,                                \* "vertex B"
    KwVertex \o SP \o IdA \o SP \o IdB \o NL,                   \* "vertex A B"
    KwVertex \o NL,                                             \* "vertex"
    KwEdge \o SP \o IdA \o SP \o IdB \o NL,                     \* "edge A B"
    KwEdge \o SP \o IdB \o SP \o IdA \o NL,                     \* "edge B A"
    TAB \o KwEdge \o SP \o SP \o IdA \o SP \o IdC \o SP \o NL,  \* "\tedge  A C "
    KwEdge \o SP \o IdB \o SP \o IdA \o SP \o IdC \o NL,        \* "edge B A C"
    KwEdge \o SP \o IdA \o NL,                                  \* "edge A"
    KwEdge \o <<"s">> \o SP \o IdA \o NL,                       \* "edges A"
    <<"#">> \o SP \o KwVertex \o SP \o IdB \o NL,               \* "# vertex B"
    <<"n", "o", "d", "e">> \o NL }                              \* "node"

Files == UNION { [1..n -> Lines] : n \in 0..MaxLines }

-----------------------------------------------------------------------------
\* str.strip() and str.split() with no argument: whitespace is the separator.

Whitespace == {" ", "\t", "\n", "\r", "\f"}

IsSpace(c) == c \in Whitespace

RECURSIVE LStrip(_)
LStrip(s) ==
  IF s = <<>> THEN s
  ELSE IF IsSpace(Head(s)) THEN LStrip(Tail(s)) ELSE s

RECURSIVE RStrip(_)
RStrip(s) ==
  IF s = <<>> THEN s
  ELSE IF IsSpace(s[Len(s)]) THEN RStrip(SubSeq(s, 1, Len(s) - 1)) ELSE s

Strip(s) == RStrip(LStrip(s))

\* cur is the token being read, acc the tokens read so far.
RECURSIVE SplitFrom(_, _, _)
SplitFrom(s, cur, acc) ==
  IF s = <<>> THEN (IF cur = <<>> THEN acc ELSE Append(acc, cur))
  ELSE IF IsSpace(Head(s))
       THEN SplitFrom(Tail(s), <<>>, IF cur = <<>> THEN acc ELSE Append(acc, cur))
       ELSE SplitFrom(Tail(s), Append(cur, Head(s)), acc)

Split(s) == SplitFrom(s, <<>>, <<>>)

\* parts = line.strip().split()
Parts(line) == Split(Strip(line))

-----------------------------------------------------------------------------
\* The body of the loop over the lines.

\* parts[k], Python's 0-based indexing; IndexError when k is out of range.
Item(parts, k) == parts[k + 1]

IndexError(parts, k) == k >= Len(parts)

\* if not parts: continue
IsBlank(parts) == parts = <<>>

\* if parts[0] == 'vertex'
IsVertex(parts) == Item(parts, 0) = KwVertex

\* Mutant: parts[0].startswith('edge').
IsEdgePrefix(parts) ==
  /\ Len(Item(parts, 0)) >= Len(KwEdge)
  /\ SubSeq(Item(parts, 0), 1, Len(KwEdge)) = KwEdge

\* elif parts[0] == 'edge'
IsEdge(parts) == Item(parts, 0) = KwEdge

\* Mutant: vertices.add(parts[0]).
VertexAddFirst(vs, parts) == vs \cup {Item(parts, 0)}

\* Mutant: vertices = {parts[1]}.
VertexAssign(vs, parts) == {Item(parts, 1)}

\* vertices.add(parts[1])
VertexAdd(vs, parts) == vs \cup {Item(parts, 1)}

\* Mutant: the pair is appended only when the list does not hold it.
EdgeAppendUnique(es, parts) ==
  IF \E k \in 1..Len(es) : es[k] = <<Item(parts, 1), Item(parts, 2)>>
  THEN es
  ELSE Append(es, <<Item(parts, 1), Item(parts, 2)>>)

\* Mutant: edges.append((parts[2], parts[1])).
EdgeAppendSwapped(es, parts) == Append(es, <<Item(parts, 2), Item(parts, 1)>>)

\* edges.append((parts[1], parts[2]))
EdgeAppend(es, parts) == Append(es, <<Item(parts, 1), Item(parts, 2)>>)

\* Mutant: a line with more tokens than its kind takes is rejected too.
RaisesStrict(parts) ==
  IF parts = <<>> THEN FALSE
  ELSE IF Item(parts, 0) = KwVertex THEN Len(parts) # 2
  ELSE IF Item(parts, 0) = KwEdge THEN Len(parts) # 3
  ELSE FALSE

\* Whether the statement run for parts raises: parts[1] of a 'vertex' line,
\* parts[1] or parts[2] of an 'edge' line.
Raises(parts) ==
  IF IsBlank(parts) THEN FALSE
  ELSE IF IsVertex(parts) THEN IndexError(parts, 1)
  ELSE IF IsEdge(parts) THEN IndexError(parts, 1) \/ IndexError(parts, 2)
  ELSE FALSE

\* Mutant: an 'edge' line also adds its two ids to the vertex set.
LoopBodyAutoDeclare(vs, es, line) ==
  LET parts == Parts(line) IN
  IF Raises(parts) THEN [vertices |-> vs, edges |-> es, raised |-> TRUE]
  ELSE IF IsBlank(parts) THEN [vertices |-> vs, edges |-> es, raised |-> FALSE]
  ELSE IF IsVertex(parts)
       THEN [vertices |-> VertexAdd(vs, parts), edges |-> es, raised |-> FALSE]
  ELSE IF IsEdge(parts)
       THEN [vertices |-> vs \cup {Item(parts, 1), Item(parts, 2)},
             edges |-> EdgeAppend(es, parts), raised |-> FALSE]
  ELSE [vertices |-> vs, edges |-> es, raised |-> FALSE]

\* Mutant: a line missing a token is skipped (except IndexError: continue).
LoopBodySkipMalformed(vs, es, line) ==
  LET parts == Parts(line) IN
  IF Raises(parts) THEN [vertices |-> vs, edges |-> es, raised |-> FALSE]
  ELSE IF IsBlank(parts) THEN [vertices |-> vs, edges |-> es, raised |-> FALSE]
  ELSE IF IsVertex(parts)
       THEN [vertices |-> VertexAdd(vs, parts), edges |-> es, raised |-> FALSE]
  ELSE IF IsEdge(parts)
       THEN [vertices |-> vs, edges |-> EdgeAppend(es, parts), raised |-> FALSE]
  ELSE [vertices |-> vs, edges |-> es, raised |-> FALSE]

\* One iteration on a line, from vertex set vs and edge list es.
LoopBody(vs, es, line) ==
  LET parts == Parts(line) IN
  IF Raises(parts) THEN [vertices |-> vs, edges |-> es, raised |-> TRUE]
  ELSE IF IsBlank(parts) THEN [vertices |-> vs, edges |-> es, raised |-> FALSE]
  ELSE IF IsVertex(parts)
       THEN [vertices |-> VertexAdd(vs, parts), edges |-> es, raised |-> FALSE]
  ELSE IF IsEdge(parts)
       THEN [vertices |-> vs, edges |-> EdgeAppend(es, parts), raised |-> FALSE]
  ELSE [vertices |-> vs, edges |-> es, raised |-> FALSE]

\* The whole loop on a sequence of lines; it stops at the line that raises.
RECURSIVE RunLoop(_, _, _)
RunLoop(vs, es, lines) ==
  IF lines = <<>> THEN [vertices |-> vs, edges |-> es, raised |-> FALSE]
  ELSE LET r == LoopBody(vs, es, Head(lines)) IN
       IF r.raised THEN r ELSE RunLoop(r.vertices, r.edges, Tail(lines))

\* Mutant: file.close() after the loop instead of a with block.
WithExitOnReturnOnly(fs, exc) == IF exc THEN fs ELSE "closed"

\* Leaving the with block closes the file, on a return and on an exception.
WithExit(fs, exc) == "closed"

-----------------------------------------------------------------------------
\* networkx.DiGraph: a node set and, per node, the set of its successors.

\* G.add_nodes_from(vertices)
add_nodes_from(node, succ, vs) ==
  [node |-> node \cup vs,
   succ |-> [n \in node \cup vs |-> IF n \in node THEN succ[n] ELSE {}]]

\* Mutant: nx.Graph(), whose edges have no direction.
add_edge_undirected(node, succ, u, v) ==
  LET nodes == node \cup {u, v}
      s0 == [n \in nodes |-> IF n \in node THEN succ[n] ELSE {}]
      s1 == [s0 EXCEPT ![u] = @ \cup {v}]
  IN [node |-> nodes, succ |-> [s1 EXCEPT ![v] = @ \cup {u}]]

\* G.add_edge(u, v): u and v become nodes when they are not, v a successor of u.
add_edge(node, succ, u, v) ==
  LET nodes == node \cup {u, v}
      s0 == [n \in nodes |-> IF n \in node THEN succ[n] ELSE {}]
  IN [node |-> nodes, succ |-> [s0 EXCEPT ![u] = @ \cup {v}]]

\* G.add_edges_from(edges)
RECURSIVE add_edges_from(_, _, _)
add_edges_from(node, succ, es) ==
  IF es = <<>> THEN [node |-> node, succ |-> succ]
  ELSE LET g == add_edge(node, succ, Head(es)[1], Head(es)[2]) IN
       add_edges_from(g.node, g.succ, Tail(es))

\* G.edges
GEdges == {e \in G_node \X G_node : e[2] \in G_succ[e[1]]}

-----------------------------------------------------------------------------
\* The program.

Init ==
  /\ pc = "start"
  /\ \/ exists = TRUE /\ file \in Files
     \/ exists = FALSE /\ file = <<>>
  /\ fstate = "unopened"
  /\ i = 0
  /\ vertices = {}
  /\ edges = <<>>
  /\ err = "none"
  /\ result = <<>>
  /\ G_node = {}
  /\ G_succ = <<>>

\* __main__ calls parse_graph, which creates its empty set and list.
Start ==
  /\ pc = "start"
  /\ vertices' = {}
  /\ edges' = <<>>
  /\ pc' = "open"
  /\ UNCHANGED <<exists, file, fstate, i, err, result, G_node, G_succ>>

\* open(file_path, 'r'): FileNotFoundError when there is no such file.
Open ==
  /\ pc = "open"
  /\ IF exists
     THEN /\ fstate' = "open"
          /\ pc' = "loop"
          /\ err' = err
     ELSE /\ fstate' = fstate
          /\ pc' = "error"
          /\ err' = "FileNotFoundError"
  /\ UNCHANGED <<exists, file, i, vertices, edges, result, G_node, G_succ>>

\* One iteration of `for line in file`; an exception leaves the with block
\* and, uncaught in __main__, ends the process.
NextLine ==
  /\ pc = "loop"
  /\ i < Len(file)
  /\ LET r == LoopBody(vertices, edges, file[i + 1]) IN
     IF r.raised
     THEN /\ fstate' = WithExit(fstate, TRUE)
          /\ pc' = "error"
          /\ err' = "IndexError"
          /\ UNCHANGED <<i, vertices, edges>>
     ELSE /\ vertices' = r.vertices
          /\ edges' = r.edges
          /\ i' = i + 1
          /\ UNCHANGED <<fstate, pc, err>>
  /\ UNCHANGED <<exists, file, result, G_node, G_succ>>

\* End of file: the with block is left and parse_graph returns.
Return ==
  /\ pc = "loop"
  /\ i = Len(file)
  /\ fstate' = WithExit(fstate, FALSE)
  /\ result' = <<[vertices |-> vertices, edges |-> edges]>>
  /\ pc' = "draw"
  /\ UNCHANGED <<exists, file, i, vertices, edges, err, G_node, G_succ>>

\* draw_graph builds the DiGraph from the returned vertices and edges.
BuildGraph ==
  /\ pc = "draw"
  /\ LET g0 == add_nodes_from({}, <<>>, result[1].vertices)
         g1 == add_edges_from(g0.node, g0.succ, result[1].edges)
     IN /\ G_node' = g1.node
        /\ G_succ' = g1.succ
  /\ pc' = "render"
  /\ UNCHANGED <<exists, file, fstate, i, vertices, edges, err, result>>

\* The figure, the layout and the drawing calls; they leave G as it is.
Render ==
  /\ pc = "render"
  /\ pc' = "show"
  /\ UNCHANGED <<exists, file, fstate, i, vertices, edges, err, result, G_node, G_succ>>

\* plt.show() returns when the window is closed, and the program ends.
Show ==
  /\ pc = "show"
  /\ pc' = "done"
  /\ UNCHANGED <<exists, file, fstate, i, vertices, edges, err, result, G_node, G_succ>>

Next == Start \/ Open \/ NextLine \/ Return \/ BuildGraph \/ Render \/ Show

Spec == Init /\ [][Next]_vars

-----------------------------------------------------------------------------
\* The input format as the documentation states it, independent of the
\* parser: the whitespace-separated tokens of a line and the record kind its
\* first token selects.

TokenStarts(line) ==
  {a \in 1..Len(line) :
     line[a] \notin Whitespace /\ (a = 1 \/ line[a - 1] \in Whitespace)}

TokenEnd(line, a) ==
  CHOOSE b \in a..Len(line) :
    /\ \A c \in a..b : line[c] \notin Whitespace
    /\ (b = Len(line) \/ line[b + 1] \in Whitespace)

NthStart(line, n) ==
  CHOOSE a \in TokenStarts(line) :
    Cardinality({x \in TokenStarts(line) : x <= a}) = n

Words(line) ==
  [n \in 1..Cardinality(TokenStarts(line)) |->
     SubSeq(line, NthStart(line, n), TokenEnd(line, NthStart(line, n)))]

WordsOf == [l \in Lines |-> Words(l)]

NWords(l) == Len(WordsOf[l])

\* The n-th token of a line, counted from 1.
Word(l, n) == WordsOf[l][n]

Kind(l) ==
  IF NWords(l) = 0 THEN "blank"
  ELSE IF Word(l, 1) = KwVertex THEN "vertex"
  ELSE IF Word(l, 1) = KwEdge THEN "edge"
  ELSE "other"

\* A line missing a required token.
Malformed(l) ==
  \/ Kind(l) = "vertex" /\ NWords(l) < 2
  \/ Kind(l) = "edge" /\ NWords(l) < 3

WellFormed(f) == \A k \in 1..Len(f) : ~Malformed(f[k])

VertexLineIdx(n) == {k \in 1..n : Kind(file[k]) = "vertex" /\ NWords(file[k]) >= 2}

EdgeLineIdx(n) == {k \in 1..n : Kind(file[k]) = "edge" /\ NWords(file[k]) >= 3}

\* The ids declared by the 'vertex' lines among the first n lines.
Declared(n) == {Word(file[k], 2) : k \in VertexLineIdx(n)}

EdgePair(l) == <<Word(l, 2), Word(l, 3)>>

\* E is the sequence, in file order, of the pairs of the 'edge' lines among
\* the first n lines.
IsEdgeSeqOf(E, n) ==
  /\ Len(E) = Cardinality(EdgeLineIdx(n))
  /\ \A k \in EdgeLineIdx(n) :
       E[Cardinality({j \in EdgeLineIdx(n) : j <= k})] = EdgePair(file[k])

\* The loop is about to process line i + 1.
LineStep == pc = "loop" /\ i < Len(file)

Returned == result # <<>>

Example ==
  << KwVertex \o SP \o IdA \o NL,
     KwVertex \o SP \o IdB \o NL,
     KwEdge \o SP \o IdA \o SP \o IdB \o NL >>

-----------------------------------------------------------------------------
\* C1: on a file whose 'vertex' lines have a second token and whose 'edge'
\* lines have a second and a third, parse_graph does not fail and returns
\* the set of second tokens of the 'vertex' lines and, in file order, the
\* (second, third) token pairs of the 'edge' lines; 'vertex A', 'vertex B',
\* 'edge A B' gives {A, B} and [(A, B)].
C1_ParseResult ==
  (exists /\ WellFormed(file)) =>
    /\ err = "none"
    /\ Returned =>
         /\ result[1].vertices = Declared(Len(file))
         /\ IsEdgeSeqOf(result[1].edges, Len(file))
         /\ file = Example =>
              /\ result[1].vertices = {IdA, IdB}
              /\ result[1].edges = << <<IdA, IdB>> >>

C1_Witness ==
  /\ file = Example
  /\ Returned
  /\ result[1].vertices = {IdA, IdB}
  /\ result[1].edges = << <<IdA, IdB>> >>

-----------------------------------------------------------------------------
\* A blank line, or one whose first token is neither 'vertex' nor 'edge'.
NoEffectLine(l) == Kind(l) \in {"blank", "other"}

\* The file with every such line deleted.
Filtered(f) == SelectSeq(f, LAMBDA l : ~NoEffectLine(l))

\* C2: blank lines and lines of an unrecognized kind have no effect: what
\* parse_graph has computed after any number of lines, what it returns and
\* whether it fails are those of the loop run on the input with every such
\* line deleted, and the line that fails is never such a line.
C2_NoEffectLines ==
  (exists /\ pc # "start") =>
    /\ LET r == RunLoop({}, <<>>, Filtered(SubSeq(file, 1, i))) IN
         /\ ~r.raised
         /\ vertices = r.vertices
         /\ edges = r.edges
    /\ err = "IndexError" => ~NoEffectLine(file[i + 1])
    /\ LET full == RunLoop({}, <<>>, Filtered(file)) IN
         /\ err = "IndexError" => full.raised
         /\ Returned =>
              /\ ~full.raised
              /\ result[1].vertices = full.vertices
              /\ result[1].edges = full.edges

\* A file of three lines of which two have no effect, one of them with a
\* single token, has been parsed to the result of its one 'edge' line.
C2_Witness ==
  /\ Returned
  /\ Len(file) = 3
  /\ Kind(file[1]) = "other" /\ NWords(file[1]) = 1
  /\ Kind(file[2]) = "edge"
  /\ Kind(file[3]) = "blank"
  /\ Len(result[1].edges) = 1

-----------------------------------------------------------------------------
\* The loop is about to process a 'vertex' line that declares an id the
\* vertex set already holds.
RedeclareStep ==
  /\ LineStep
  /\ Kind(file[i + 1]) = "vertex"
  /\ NWords(file[i + 1]) >= 2
  /\ Word(file[i + 1], 2) \in vertices

\* C3: a 'vertex' line whose id is already in the vertex set leaves the set
\* unchanged, and after any number of lines the vertex set is the set of
\* the ids declared so far, its size the number of distinct declared ids.
C3_VertexIdempotent ==
  /\ [](/\ vertices = Declared(i)
        /\ Cardinality(vertices) = Cardinality(Declared(i))
        /\ Cardinality(vertices) <= Cardinality(VertexLineIdx(i)))
  /\ [][RedeclareStep => (vertices' = vertices /\ i' = i + 1 /\ pc' = "loop")]_vars

\* Three 'vertex' lines, all processed, that declare one id.
C3_Witness ==
  /\ i = 3
  /\ Cardinality(VertexLineIdx(3)) = 3
  /\ Cardinality(vertices) = 1

-----------------------------------------------------------------------------
\* The number of entries of a sequence equal to p.
Occurrences(E, p) == Cardinality({k \in 1..Len(E) : E[k] = p})

\* C4: edges are not deduplicated: after any number of lines the edge
\* sequence has one entry per 'edge' line processed, and a pair occurs in it
\* as many times as 'edge' lines processed gave it.
C4_EdgesNotDeduplicated ==
  /\ Len(edges) = Cardinality(EdgeLineIdx(i))
  /\ \A k \in EdgeLineIdx(i) :
       Occurrences(edges, EdgePair(file[k])) =
         Cardinality({j \in EdgeLineIdx(i) : EdgePair(file[j]) = EdgePair(file[k])})

\* Three identical 'edge' lines have given three entries.
C4_Witness ==
  /\ i = 3
  /\ file[1] = file[2] /\ file[2] = file[3]
  /\ Kind(file[1]) = "edge"
  /\ Len(edges) = 3
  /\ Occurrences(edges, EdgePair(file[1])) = 3

-----------------------------------------------------------------------------
\* The ids declared by a 'vertex' line anywhere in the file.
DeclaredAnywhere ==
  {Word(file[k], 2) :
     k \in {j \in 1..Len(file) : Kind(file[j]) = "vertex" /\ NWords(file[j]) >= 2}}

\* The loop is about to process an 'edge' line that names an id no 'vertex'
\* line of the file declares.
UndeclaredEdgeStep ==
  /\ LineStep
  /\ Kind(file[i + 1]) = "edge"
  /\ NWords(file[i + 1]) >= 3
  /\ \/ Word(file[i + 1], 2) \notin DeclaredAnywhere
     \/ Word(file[i + 1], 3) \notin DeclaredAnywhere

\* C5: an 'edge' line naming an undeclared id is appended to the edge
\* sequence without a failure and without a change of the vertex set, and
\* the vertex set holds only ids that 'vertex' lines declare.
C5_NoReferentialValidation ==
  /\ [](/\ vertices \subseteq DeclaredAnywhere
        /\ Returned => result[1].vertices \subseteq DeclaredAnywhere)
  /\ [][UndeclaredEdgeStep =>
          /\ edges' = Append(edges, EdgePair(file[i + 1]))
          /\ vertices' = vertices
          /\ pc' = "loop" /\ err' = "none" /\ i' = i + 1]_vars

\* A result whose edge sequence names an id that no line declares and that
\* the vertex set does not hold.
C5_Witness ==
  /\ Returned
  /\ \E k \in 1..Len(result[1].edges) :
       /\ result[1].edges[k][2] \notin DeclaredAnywhere
       /\ result[1].edges[k][2] \notin result[1].vertices
  /\ result[1].vertices # {}

-----------------------------------------------------------------------------
MalformedIdx == {k \in 1..Len(file) : Malformed(file[k])}

FirstMalformed == CHOOSE k \in MalformedIdx : \A j \in MalformedIdx : k <= j

\* C6: with a line missing a required token in the file, parse_graph never
\* gets past the first such line, returns nothing and fails there with the
\* uncaught IndexError, and draw_graph is not run.
C6_MalformedLineFails ==
  (exists /\ MalformedIdx # {}) =>
    /\ i < FirstMalformed
    /\ result = <<>>
    /\ pc \in {"start", "open", "loop", "error"}
    /\ G_node = {}
    /\ (pc = "loop" /\ i = FirstMalformed - 1) => ENABLED NextLine
    /\ pc = "error" =>
         /\ err = "IndexError"
         /\ i = FirstMalformed - 1
         /\ vertices = Declared(i)
         /\ IsEdgeSeqOf(edges, i)

\* The failure at a malformed second line, between two valid lines.
C6_Witness ==
  /\ pc = "error"
  /\ Len(file) = 3
  /\ i = 1
  /\ Kind(file[1]) = "vertex"
  /\ Kind(file[2]) = "edge" /\ NWords(file[2]) = 2
  /\ Kind(file[3]) = "edge" /\ NWords(file[3]) = 3

-----------------------------------------------------------------------------
\* C7: the edge sequence changes only by an 'edge' line appending its pair,
\* second token first and third token second, at the end; so the entries
\* are, in file order, the pairs of the 'edge' lines processed.
C7_EdgeOrder ==
  /\ [][/\ (edges' # edges) =>
             /\ LineStep
             /\ Kind(file[i + 1]) = "edge"
             /\ edges' = Append(edges, EdgePair(file[i + 1]))
        /\ (LineStep /\ Kind(file[i + 1]) = "edge" /\ NWords(file[i + 1]) >= 3) =>
             edges' = Append(edges, EdgePair(file[i + 1]))]_vars
  /\ [](IsEdgeSeqOf(edges, i))

\* 'edge A B' then 'edge B A' has given [(A, B), (B, A)].
C7_Witness ==
  /\ i >= 2
  /\ edges = << <<IdA, IdB>>, <<IdB, IdA>> >>

-----------------------------------------------------------------------------
\* C8: the file is open only while the loop runs: it is closed when
\* parse_graph has returned, when a malformed line has raised, and in every
\* state of draw_graph.
C8_FileClosed ==
  /\ fstate = "open" => pc = "loop"
  /\ Returned => fstate = "closed"
  /\ err = "IndexError" => fstate = "closed"
  /\ pc \in {"draw", "render", "show", "done"} => fstate = "closed"
  /\ (pc = "error" /\ fstate # "closed") => (fstate = "unopened" /\ ~exists)

\* A malformed line has raised after a line was read, and the file is closed.
C8_Witness ==
  /\ pc = "error"
  /\ err = "IndexError"
  /\ i >= 1
  /\ fstate = "closed"

-----------------------------------------------------------------------------
SurplusVertex(l) == Kind(l) = "vertex" /\ NWords(l) > 2

SurplusEdge(l) == Kind(l) = "edge" /\ NWords(l) > 3

\* C9: a 'vertex' line with more than one further token adds its second
\* token alone, an 'edge' line with more than two further tokens appends
\* its (second, third) pair alone, and neither fails.
C9_SurplusTokens ==
  [][/\ (LineStep /\ SurplusVertex(file[i + 1])) =>
          /\ vertices' = vertices \cup {Word(file[i + 1], 2)}
          /\ edges' = edges
          /\ pc' = "loop" /\ err' = "none" /\ i' = i + 1
     /\ (LineStep /\ SurplusEdge(file[i + 1])) =>
          /\ edges' = Append(edges, EdgePair(file[i + 1]))
          /\ vertices' = vertices
          /\ pc' = "loop" /\ err' = "none" /\ i' = i + 1]_vars

\* 'vertex A B' and 'edge B A C' have been parsed to {A} and [(B, A)].
C9_Witness ==
  /\ Returned
  /\ Len(file) = 2
  /\ SurplusVertex(file[1])
  /\ SurplusEdge(file[2])
  /\ result[1].vertices = {IdA}
  /\ result[1].edges = << <<IdB, IdA>> >>

-----------------------------------------------------------------------------
\* The ids that occur in a sequence of pairs, and its distinct pairs.
Endpoints(E) == {E[k][1] : k \in 1..Len(E)} \cup {E[k][2] : k \in 1..Len(E)}

Pairs(E) == {E[k] : k \in 1..Len(E)}

\* C10: the nodes of the graph draw_graph builds are the returned vertices
\* and every endpoint of a returned edge, and its edges are the distinct
\* pairs of the returned edge sequence, direction kept.
C10_DrawnGraph ==
  pc \in {"render", "show", "done"} =>
    /\ G_node = result[1].vertices \cup Endpoints(result[1].edges)
    /\ GEdges = Pairs(result[1].edges)

\* Two 'edge A B' and one 'edge B A', no 'vertex' line: the nodes A and B
\* are drawn though undeclared, and three entries are drawn as two edges.
C10_Witness ==
  /\ pc = "done"
  /\ result[1].vertices = {}
  /\ G_node = {IdA, IdB}
  /\ Len(result[1].edges) = 3
  /\ GEdges = {<<IdA, IdB>>, <<IdB, IdA>>}

====
